---- MODULE Spec2Model ----
(***************************************************************************)
(* Model of the Reports page (src/src/pages/Reports.tsx): the product and  *)
(* transaction snapshot held by the component, the four report builders,   *)
(* the CSV serialisation and download performed by downloadCSV, the        *)
(* End-of-Day handler and the on-screen summary counts.                    *)
(*                                                                         *)
(* Text is a sequence of one-character strings, so that joining and        *)
(* splitting are computed character by character.  A JavaScript number is  *)
(* held as an integer count of thousandths (Scale = 1000), so 0.004 is 4   *)
(* and 5 is 5000; every cost in the catalogue is an even number of         *)
(* thousandths, which keeps all sums away from the half-cent ties where    *)
(* binary floating point and decimal rounding could differ.                *)
(***************************************************************************)
EXTENDS Integers, Sequences, FiniteSets, TLC

VARIABLES
    store,         \* StorageService: [products, transactions]
    products,      \* useState<Product[]>
    transactions,  \* useState<StockTransaction[]>
    mounted,       \* the mount effect has run
    today,         \* index into Days: the date new Date() returns
    pc,            \* position of the running handler ("idle" when none runs)
    cont,          \* what the running handler does after downloadCSV returns
    data,          \* downloadCSV's argument data
    filename,      \* downloadCSV's argument filename
    link,          \* the anchor element built by downloadCSV: [href, download]
    urls,          \* the live object URLs
    screen,        \* the End of Day summary as last rendered
    log,           \* effects of the current (or last) handler, in order
    lastDownload   \* history: the last file downloaded, and whether it
                   \* repeated the download before it (same report, same day)

vars == <<store, products, transactions, mounted, today, pc, cont, data,
          filename, link, urls, screen, log, lastDownload>>

(***************************************************************************)
(* Bounds.                                                                 *)
(***************************************************************************)
MaxProducts == 2
MaxTransactions == 1
MaxRows == 2

\* thousandths per unit: the fixed-point scale of the number model
Scale == 10 * 10 * 10

(***************************************************************************)
(* Text.                                                                   *)
(***************************************************************************)
Comma == ","
Newline == "\n"

RECURSIVE Join(_, _)
\* Array.prototype.join over an array of texts
Join(texts, sep) ==
    IF Len(texts) = 0 THEN <<>>
    ELSE IF Len(texts) = 1 THEN texts[1]
    ELSE texts[1] \o <<sep>> \o Join(Tail(texts), sep)

RECURSIVE Concat(_)
\* template-literal concatenation of a sequence of texts
Concat(texts) ==
    IF Len(texts) = 0 THEN <<>> ELSE texts[1] \o Concat(Tail(texts))

DigitChar(d) ==
    <<"0", "1", "2", "3", "4", "5", "6", "7", "8", "9">>[d + 1]

RECURSIVE Digits(_)
\* decimal digits of a natural number, without leading zeros
Digits(n) ==
    IF n < 10 THEN <<DigitChar(n)>>
    ELSE Digits(n \div 10) \o <<DigitChar(n % 10)>>

\* decimal digits of n left-padded with zeros to width w
Pad(n, w) ==
    LET ds == Digits(n)
    IN  [i \in 1..(IF Len(ds) < w THEN w - Len(ds) ELSE 0) |-> "0"] \o ds

Abs(m) == IF m < 0 THEN 0 - m ELSE m

RECURSIVE StripZeros(_)
StripZeros(ds) ==
    IF Len(ds) > 0 /\ ds[Len(ds)] = "0"
    THEN StripZeros(SubSeq(ds, 1, Len(ds) - 1))
    ELSE ds

\* Number.prototype.toFixed(2) of the number m / Scale: the sign first, then
\* the integer n for which n / 100 is closest to the magnitude (the larger n
\* on a tie), written with exactly two fraction digits
ToFixed2(m) ==
    LET n == (Abs(m) * 100 + Scale \div 2) \div Scale
    IN  (IF m < 0 THEN <<"-">> ELSE <<>>)
        \o Digits(n \div 100) \o <<".">> \o Pad(n % 100, 2)

\* Number::toString of the number m / Scale
NumToString(m) ==
    LET a == Abs(m)
        frac == StripZeros(Pad(a % Scale, 3))
    IN  (IF m < 0 THEN <<"-">> ELSE <<>>)
        \o Digits(a \div Scale)
        \o (IF Len(frac) = 0 THEN <<>> ELSE <<".">> \o frac)

(***************************************************************************)
(* JavaScript values held in report rows: a number, a string or undefined. *)
(***************************************************************************)
Num(m) == [t |-> "num", n |-> m, s |-> <<>>]
Str(cs) == [t |-> "str", n |-> 0, s |-> cs]
Undefined == [t |-> "undef", n |-> 0, s |-> <<>>]

\* an integer as a JavaScript number
Whole(i) == Num(i * Scale)

\* the element conversion of Array.prototype.join: undefined gives the empty
\* text, anything else its ToString
JoinText(v) ==
    IF v.t = "undef" THEN <<>>
    ELSE IF v.t = "num" THEN NumToString(v.n)
    ELSE v.s

\* ToBoolean(v) is false
Falsy(v) ==
    \/ v.t = "undef"
    \/ v.t = "num" /\ v.n = 0
    \/ v.t = "str" /\ v.s = <<>>

\* v || d
OrElse(v, d) == IF Falsy(v) THEN d ELSE v

(***************************************************************************)
(* Report rows: an object literal is the sequence of its <<key, value>>    *)
(* properties in insertion order.                                          *)
(***************************************************************************)
\* Object.keys(row)
ObjectKeys(row) == [i \in 1..Len(row) |-> row[i][1]]

\* row[key]: the property's value, undefined when the row has no such key
Get(row, key) ==
    IF \E i \in 1..Len(row) : row[i][1] = key
    THEN row[CHOOSE i \in 1..Len(row) : row[i][1] = key][2]
    ELSE Undefined

\* faulty variant of CsvContent: each line lists the row's values in the
\* row's own property order instead of the header order
CsvContent_OwnOrder(rows) ==
    LET headers == ObjectKeys(rows[1])
        line(row) == Join([h \in 1..Len(row) |-> JoinText(row[h][2])], Comma)
    IN  Join(<<Join(headers, Comma)>> \o [r \in 1..Len(rows) |-> line(rows[r])], Newline)

\* lines 117-121: the CSV text of a non-empty row sequence
CsvContent(rows) ==
    LET headers == ObjectKeys(rows[1])
        line(row) == Join([h \in 1..Len(headers) |-> JoinText(Get(row, headers[h]))], Comma)
    IN  Join(<<Join(headers, Comma)>> \o [r \in 1..Len(rows) |-> line(rows[r])], Newline)

(***************************************************************************)
(* The string literals of the source, as texts.                            *)
(***************************************************************************)
K_SKU ==
    <<"S", "K", "U">>
K_Name ==
    <<"N", "a", "m", "e">>
K_Category ==
    <<"C", "a", "t", "e", "g", "o", "r", "y">>
K_Quantity ==
    <<"Q", "u", "a", "n", "t", "i", "t", "y">>
K_Unit ==
    <<"U", "n", "i", "t">>
K_UnitCost ==
    <<"U", "n", "i", "t", " ", "C", "o", "s", "t">>
K_SellingPrice ==
    <<"S", "e", "l", "l", "i", "n", "g", " ", "P", "r", "i", "c", "e">>
K_TotalValue ==
    <<"T", "o", "t", "a", "l", " ", "V", "a", "l", "u", "e">>
K_ReorderLevel ==
    <<"R", "e", "o", "r", "d", "e", "r", " ", "L", "e", "v", "e", "l">>
K_Location ==
    <<"L", "o", "c", "a", "t", "i", "o", "n">>
K_Status ==
    <<"S", "t", "a", "t", "u", "s">>
K_CurrentQuantity ==
    <<"C", "u", "r", "r", "e", "n", "t", " ", "Q", "u", "a", "n", "t", "i", "t", "y">>
K_UnitsBelowReorder ==
    <<"U", "n", "i", "t", "s", " ", "B", "e", "l", "o", "w", " ", "R", "e", "o", "r", "d", "e", "r">>
K_Supplier ==
    <<"S", "u", "p", "p", "l", "i", "e", "r">>
K_Date ==
    <<"D", "a", "t", "e">>
K_Product ==
    <<"P", "r", "o", "d", "u", "c", "t">>
K_Type ==
    <<"T", "y", "p", "e">>
K_User ==
    <<"U", "s", "e", "r">>
K_Reason ==
    <<"R", "e", "a", "s", "o", "n">>
K_StockValue ==
    <<"S", "t", "o", "c", "k", " ", "V", "a", "l", "u", "e">>
K_PotentialRevenue ==
    <<"P", "o", "t", "e", "n", "t", "i", "a", "l", " ", "R", "e", "v", "e", "n", "u", "e">>
K_PotentialProfit ==
    <<"P", "o", "t", "e", "n", "t", "i", "a", "l", " ", "P", "r", "o", "f", "i", "t">>
S_NA ==
    <<"N", "/", "A">>
S_TOTAL ==
    <<"T", "O", "T", "A", "L">>
S_Active ==
    <<"A", "c", "t", "i", "v", "e">>
S_Inactive ==
    <<"I", "n", "a", "c", "t", "i", "v", "e">>
S_Discontinued ==
    <<"D", "i", "s", "c", "o", "n", "t", "i", "n", "u", "e", "d">>
InventoryReportId ==
    <<"i", "n", "v", "e", "n", "t", "o", "r", "y", "_", "r", "e", "p", "o", "r", "t">>
LowStockReportId ==
    <<"l", "o", "w", "_", "s", "t", "o", "c", "k", "_", "r", "e", "p", "o", "r", "t">>
TransactionReportId ==
    <<"t", "r", "a", "n", "s", "a", "c", "t", "i", "o", "n", "_", "r", "e", "p", "o", "r", "t">>
ValuationReportId ==
    <<"v", "a", "l", "u", "a", "t", "i", "o", "n", "_", "r", "e", "p", "o", "r", "t">>
S_csv ==
    <<".", "c", "s", "v">>

(***************************************************************************)
(* The Data Provider's records.  quantity and reorderLevel are whole       *)
(* units; unitCost and sellingPrice are thousandths.                       *)
(***************************************************************************)
Product(sku, q, c, s, r, sup, st) ==
    [sku |-> sku, name |-> <<"n">> \o sku, categoryName |-> <<"c">>,
     quantity |-> q, unit |-> <<"p", "c">>, unitCost |-> c,
     sellingPrice |-> s, reorderLevel |-> r, location |-> <<"L">>,
     supplier |-> sup, status |-> st]

\* the products a snapshot is drawn from: below, at and above the reorder
\* level, with each status, with whole, fractional and sub-cent costs, with
\* and without a supplier
Catalogue ==
    { Product(<<"A", "1">>, 5, 10000, 15000, 10, Str(<<"A", "c", "m", "e">>), S_Active),
      Product(<<"B", "2">>, 1, 4, 6, 1, Undefined, S_Active),
      Product(<<"D", "4">>, 2, 1250, 1000, 1, Str(<<>>), S_Active),
      Product(<<"E", "5">>, 0, 2500, 3000, 3, Str(<<"Z">>), S_Inactive),
      Product(<<"F", "6">>, 2, 1500, 1500, 2, Undefined, S_Discontinued) }

\* the calendar days the model runs through: [y, m, d]
Days ==
    << [y |-> 2024, m |-> 12, d |-> 31], [y |-> 2025, m |-> 1, d |-> 1] >>

Transaction(day, product, type, q, user, reason) ==
    [transactionDate |-> day, productName |-> product,
     transactionType |-> type, quantity |-> q, userName |-> user,
     reason |-> reason]

Ledger ==
    { Transaction(Days[1], <<"n", "A", "1">>, <<"I", "N">>, 3, <<"u">>, Undefined) }

\* all sequences over S of length at most n
SeqsUpTo(S, n) == UNION { [1..k -> S] : k \in 0..n }

Stores ==
    [products : SeqsUpTo(Catalogue, MaxProducts),
     transactions : SeqsUpTo(Ledger, MaxTransactions)]

(***************************************************************************)
(* Dates.                                                                  *)
(***************************************************************************)
\* new Date().toISOString().split("T")[0]
ISODate(day) ==
    Pad(day.y, 4) \o <<"-">> \o Pad(day.m, 2) \o <<"-">> \o Pad(day.d, 2)

\* new Date(t).toLocaleString() of a timestamp at local midnight, in the
\* en-US locale: "M/D/YYYY, 12:00:00 AM"
LocaleString(day) ==
    Digits(day.m) \o <<"/">> \o Digits(day.d) \o <<"/">> \o Digits(day.y)
    \o <<",", " ", "1", "2", ":", "0", "0", ":", "0", "0", " ", "A", "M">>

(***************************************************************************)
(* Report Builder.                                                         *)
(***************************************************************************)
\* faulty variant of InventoryRow: Total Value from the selling price
InventoryRow_SellingPrice(p) ==
    << <<K_SKU, Str(p.sku)>>,
       <<K_Name, Str(p.name)>>,
       <<K_Category, Str(p.categoryName)>>,
       <<K_Quantity, Whole(p.quantity)>>,
       <<K_Unit, Str(p.unit)>>,
       <<K_UnitCost, Num(p.unitCost)>>,
       <<K_SellingPrice, Num(p.sellingPrice)>>,
       <<K_TotalValue, Str(ToFixed2(p.quantity * p.sellingPrice))>>,
       <<K_ReorderLevel, Whole(p.reorderLevel)>>,
       <<K_Location, Str(p.location)>>,
       <<K_Status, Str(p.status)>> >>

\* lines 25-37: the row of one product
InventoryRow(p) ==
    << <<K_SKU, Str(p.sku)>>,
       <<K_Name, Str(p.name)>>,
       <<K_Category, Str(p.categoryName)>>,
       <<K_Quantity, Whole(p.quantity)>>,
       <<K_Unit, Str(p.unit)>>,
       <<K_UnitCost, Num(p.unitCost)>>,
       <<K_SellingPrice, Num(p.sellingPrice)>>,
       <<K_TotalValue, Str(ToFixed2(p.quantity * p.unitCost))>>,
       <<K_ReorderLevel, Whole(p.reorderLevel)>>,
       <<K_Location, Str(p.location)>>,
       <<K_Status, Str(p.status)>> >>

InventoryReport(ps) == [i \in 1..Len(ps) |-> InventoryRow(ps[i])]

\* faulty variant of IsLowStockActive: < for <=
IsLowStockActive_Strict(p) ==
    p.quantity < p.reorderLevel /\ p.status = S_Active

\* line 44: the filter of the low-stock report
IsLowStockActive(p) == p.quantity <= p.reorderLevel /\ p.status = S_Active

\* lines 46-55
LowStockRow(p) ==
    << <<K_SKU, Str(p.sku)>>,
       <<K_Name, Str(p.name)>>,
       <<K_Category, Str(p.categoryName)>>,
       <<K_CurrentQuantity, Whole(p.quantity)>>,
       <<K_ReorderLevel, Whole(p.reorderLevel)>>,
       <<K_UnitsBelowReorder, Whole(p.reorderLevel - p.quantity)>>,
       <<K_Location, Str(p.location)>>,
       <<K_Supplier, OrElse(p.supplier, Str(S_NA))>> >>

LowStockReport(ps) ==
    LET lowStock == SelectSeq(ps, IsLowStockActive)
    IN  [i \in 1..Len(lowStock) |-> LowStockRow(lowStock[i])]

\* lines 61-68
TransactionRow(tx) ==
    << <<K_Date, Str(LocaleString(tx.transactionDate))>>,
       <<K_Product, Str(tx.productName)>>,
       <<K_Type, Str(tx.transactionType)>>,
       <<K_Quantity, Whole(tx.quantity)>>,
       <<K_User, Str(tx.userName)>>,
       <<K_Reason, OrElse(tx.reason, Str(S_NA))>> >>

TransactionReport(txs) == [i \in 1..Len(txs) |-> TransactionRow(txs[i])]

\* lines 74-85
ValuationRow(p) ==
    << <<K_SKU, Str(p.sku)>>,
       <<K_Name, Str(p.name)>>,
       <<K_Category, Str(p.categoryName)>>,
       <<K_Quantity, Whole(p.quantity)>>,
       <<K_UnitCost, Str(ToFixed2(p.unitCost))>>,
       <<K_StockValue, Str(ToFixed2(p.quantity * p.unitCost))>>,
       <<K_PotentialRevenue, Str(ToFixed2(p.quantity * p.sellingPrice))>>,
       <<K_PotentialProfit,
         Str(ToFixed2(p.quantity * (p.sellingPrice - p.unitCost)))>> >>

RECURSIVE TotalValue(_)
\* lines 87-90 (and 296-298): products.reduce((sum, p) => sum + q * unitCost, 0)
TotalValue(ps) ==
    IF Len(ps) = 0 THEN 0
    ELSE TotalValue(SubSeq(ps, 1, Len(ps) - 1))
         + ps[Len(ps)].quantity * ps[Len(ps)].unitCost

RECURSIVE TotalRevenue(_)
\* lines 91-94
TotalRevenue(ps) ==
    IF Len(ps) = 0 THEN 0
    ELSE TotalRevenue(SubSeq(ps, 1, Len(ps) - 1))
         + ps[Len(ps)].quantity * ps[Len(ps)].sellingPrice

\* lines 95-106: the TOTAL row
TotalRow(ps) ==
    LET totalValue == TotalValue(ps)
        totalRevenue == TotalRevenue(ps)
        totalProfit == totalRevenue - totalValue
    IN  << <<K_SKU, Str(S_TOTAL)>>,
           <<K_Name, Str(<<>>)>>,
           <<K_Category, Str(<<>>)>>,
           <<K_Quantity, Whole(0)>>,
           <<K_UnitCost, Str(<<>>)>>,
           <<K_StockValue, Str(ToFixed2(totalValue))>>,
           <<K_PotentialRevenue, Str(ToFixed2(totalRevenue))>>,
           <<K_PotentialProfit, Str(ToFixed2(totalProfit))>> >>

\* lines 74-106: the per-product rows with the TOTAL row pushed after them
ValuationReport(ps) ==
    [i \in 1..Len(ps) |-> ValuationRow(ps[i])] \o <<TotalRow(ps)>>

(***************************************************************************)
(* Summary Aggregator (lines 266-300).                                     *)
(***************************************************************************)
ActiveProductsCount(ps) ==
    Len(SelectSeq(ps, LAMBDA p : p.status = S_Active))

\* faulty variant of LowStockItemsCount: the report's filter, status included
LowStockItemsCount_ActiveOnly(ps) ==
    Len(SelectSeq(ps, IsLowStockActive))

\* line 275
LowStockItemsCount(ps) ==
    Len(SelectSeq(ps, LAMBDA p : p.quantity <= p.reorderLevel))

\* new Date(tx.transactionDate).toDateString() === new Date().toDateString()
TodaysTransactionsCount(txs, day) ==
    Len(SelectSeq(txs, LAMBDA tx : tx.transactionDate = day))

\* what a render shows in the End of Day summary
Render(ps, txs, day) ==
    [activeProducts |-> ActiveProductsCount(ps),
     lowStockItems |-> LowStockItemsCount(ps),
     todaysTransactions |-> TodaysTransactionsCount(txs, day),
     totalValue |-> <<"$">> \o ToFixed2(TotalValue(ps))]

(***************************************************************************)
(* Effects.  log records, in order, what the running handler has done:     *)
(* each call of downloadCSV, object URLs created and revoked, downloads    *)
(* started and notifications shown.                                        *)
(***************************************************************************)
Event(op, msg, name, url, body, n) ==
    [op |-> op, msg |-> msg, name |-> name, url |-> url, body |-> body, n |-> n]

CallEvent(base, rows) == Event("downloadCSV", "", base, 0, <<>>, Len(rows))
CreateEvent(url) == Event("createObjectURL", "", <<>>, url, <<>>, 0)
DownloadEvent(name, url, body) == Event("download", "", name, url, body, 0)
DeadLinkEvent(name, url) == Event("deadLink", "", name, url, <<>>, 0)
RevokeEvent(url) == Event("revokeObjectURL", "", <<>>, url, <<>>, 0)
ToastSuccess(msg) == Event("toast.success", msg, <<>>, 0, <<>>, 0)
ToastError(msg) == Event("toast.error", msg, <<>>, 0, <<>>, 0)

NoDataMsg == "No data to export"
DownloadedMsg == "Report downloaded successfully"
EndOfDayMsg == "End of Day reports generated"

NoLink == [href |-> 0, download |-> <<>>]

NoDownload == [base |-> <<>>, day |-> 0, name |-> <<>>, body |-> <<>>,
               repeat |-> FALSE]

\* the id of the next object URL: one more than the URLs this handler has
\* created so far
FreshUrl == 1 + Cardinality({i \in 1..Len(log) : log[i].op = "createObjectURL"})

LiveIds == {u.id : u \in urls}

(***************************************************************************)
(* The page.                                                               *)
(***************************************************************************)
\* what no handler writes: the store, the snapshot and its rendering
page == <<store, products, transactions, mounted, screen>>

\* lines 16-17: the state after construction
Init ==
    /\ store \in Stores
    /\ products = <<>>
    /\ transactions = <<>>
    /\ mounted = FALSE
    /\ today = 1
    /\ pc = "idle"
    /\ cont = <<>>
    /\ data = <<>>
    /\ filename = <<>>
    /\ link = NoLink
    /\ urls = {}
    /\ screen = Render(<<>>, <<>>, Days[1])
    /\ log = <<>>
    /\ lastDownload = NoDownload

\* lines 19-22: the mount effect
Mount ==
    /\ ~mounted
    /\ mounted' = TRUE
    /\ products' = store.products
    /\ transactions' = store.transactions
    /\ screen' = Render(store.products, store.transactions, Days[today])
    /\ UNCHANGED <<store, today, pc, cont, data, filename, link, urls, log,
                   lastDownload>>

\* midnight passes
Tick ==
    /\ today < Len(Days)
    /\ today' = today + 1
    /\ UNCHANGED <<page, pc, cont, data, filename, link, urls, log,
                   lastDownload>>

\* downloadCSV(rows, base) is entered, with k left to do after it returns
Call(rows, base, k, sofar) ==
    /\ data' = rows
    /\ filename' = base
    /\ cont' = k
    /\ pc' = "downloadCSV"
    /\ log' = Append(sofar, CallEvent(base, rows))
    /\ UNCHANGED <<page, today, link, urls, lastDownload>>

\* a button's handler starts only when no handler runs and the page is mounted
CanClick == mounted /\ pc = "idle"

\* lines 24-40
GenerateInventoryReport ==
    /\ CanClick
    /\ Call(InventoryReport(products), InventoryReportId, <<>>, <<>>)

\* lines 42-58
GenerateLowStockReport ==
    /\ CanClick
    /\ Call(LowStockReport(products), LowStockReportId, <<>>, <<>>)

\* lines 60-71
GenerateTransactionReport ==
    /\ CanClick
    /\ Call(TransactionReport(transactions), TransactionReportId, <<>>, <<>>)

\* faulty variant of GenerateValuationReport: the TOTAL line is pushed onto
\* products as well
GenerateValuationReport_PushToProducts ==
    /\ CanClick
    /\ products' = Append(products,
           Product(S_TOTAL, 0, TotalValue(products), TotalRevenue(products),
                   0, Undefined, <<>>))
    /\ data' = ValuationReport(products)
    /\ filename' = ValuationReportId
    /\ cont' = <<>>
    /\ pc' = "downloadCSV"
    /\ log' = <<CallEvent(ValuationReportId, ValuationReport(products))>>
    /\ UNCHANGED <<store, transactions, mounted, screen, today, link, urls,
                   lastDownload>>

\* lines 73-109
GenerateValuationReport ==
    /\ CanClick
    /\ Call(ValuationReport(products), ValuationReportId, <<>>, <<>>)

\* lines 303-304: the End-of-Day handler starts with the inventory export
EndOfDay ==
    /\ CanClick
    /\ Call(InventoryReport(products), InventoryReportId,
            <<"eodLowStock", "eodToast">>, <<>>)

\* line 305: the End-of-Day handler goes on with the low-stock export
EndOfDayLowStock ==
    /\ pc = "eodLowStock"
    /\ Call(LowStockReport(products), LowStockReportId, cont, log)

\* lines 306-307: the End-of-Day handler's own notification
EndOfDayToast ==
    /\ pc = "eodToast"
    /\ log' = Append(log, ToastSuccess(EndOfDayMsg))
    /\ pc' = "idle"
    /\ UNCHANGED <<page, today, cont, data, filename, link, urls,
                   lastDownload>>

\* downloadCSV returns to its caller
Return ==
    /\ pc' = IF cont = <<>> THEN "idle" ELSE Head(cont)
    /\ cont' = IF cont = <<>> THEN <<>> ELSE Tail(cont)

\* faulty variant of DownloadNoData: the early return is missing, so the
\* call goes on to make a URL for an empty text
DownloadNoData_NoReturn ==
    /\ pc = "downloadCSV"
    /\ Len(data) = 0
    /\ urls' = urls \cup {[id |-> FreshUrl, blob |-> <<>>]}
    /\ link' = [href |-> FreshUrl, download |-> <<>>]
    /\ log' = log \o <<ToastError(NoDataMsg), CreateEvent(FreshUrl)>>
    /\ pc' = "created"
    /\ UNCHANGED <<page, today, cont, data, filename, lastDownload>>

\* lines 112-115
DownloadNoData ==
    /\ pc = "downloadCSV"
    /\ Len(data) = 0
    /\ log' = Append(log, ToastError(NoDataMsg))
    /\ Return
    /\ UNCHANGED <<page, today, data, filename, link, urls, lastDownload>>

\* lines 117-126: the CSV text, the blob, its object URL, the anchor
DownloadCreateUrl ==
    /\ pc = "downloadCSV"
    /\ Len(data) # 0
    /\ urls' = urls \cup {[id |-> FreshUrl, blob |-> CsvContent(data)]}
    /\ link' = [href |-> FreshUrl, download |-> <<>>]
    /\ log' = Append(log, CreateEvent(FreshUrl))
    /\ pc' = "created"
    /\ UNCHANGED <<page, today, cont, data, filename, lastDownload>>

\* faulty variant of DownloadName: the date is left out
DownloadName_NoDate(base, day) == Concat(<<base, S_csv>>)

\* line 127: the file name
DownloadName(base, day) == Concat(<<base, <<"_">>, ISODate(day), S_csv>>)

\* lines 127-128: the file is named; the click starts the download of what
\* the URL refers to
DownloadClick ==
    /\ pc = "created"
    /\ LET name == DownloadName(filename, Days[today])
           body == IF link.href \in LiveIds
                   THEN (CHOOSE u \in urls : u.id = link.href).blob
                   ELSE <<>>
       IN  /\ link' = [link EXCEPT !.download = name]
           /\ log' = Append(log,
                  IF link.href \in LiveIds
                  THEN DownloadEvent(name, link.href, body)
                  ELSE DeadLinkEvent(name, link.href))
           /\ lastDownload' =
                  [base |-> filename, day |-> today, name |-> name,
                   body |-> body,
                   repeat |-> lastDownload.base = filename
                              /\ lastDownload.day = today]
    /\ pc' = "clicked"
    /\ UNCHANGED <<page, today, cont, data, filename, urls>>

\* faulty variant of DownloadRevoke: the URL is never released
DownloadRevoke_Leak ==
    /\ pc = "clicked"
    /\ pc' = "revoked"
    /\ UNCHANGED <<page, today, cont, data, filename, link, urls, log,
                   lastDownload>>

\* line 129
DownloadRevoke ==
    /\ pc = "clicked"
    /\ urls' = {u \in urls : u.id # link.href}
    /\ log' = Append(log, RevokeEvent(link.href))
    /\ pc' = "revoked"
    /\ UNCHANGED <<page, today, cont, data, filename, link, lastDownload>>

\* lines 131-132
DownloadSuccess ==
    /\ pc = "revoked"
    /\ log' = Append(log, ToastSuccess(DownloadedMsg))
    /\ Return
    /\ UNCHANGED <<page, today, data, filename, link, urls, lastDownload>>

Next ==
    \/ Mount
    \/ Tick
    \/ GenerateInventoryReport
    \/ GenerateLowStockReport
    \/ GenerateTransactionReport
    \/ GenerateValuationReport
    \/ EndOfDay
    \/ EndOfDayLowStock
    \/ EndOfDayToast
    \/ DownloadNoData
    \/ DownloadCreateUrl
    \/ DownloadClick
    \/ DownloadRevoke
    \/ DownloadSuccess

Spec == Init /\ [][Next]_vars

(***************************************************************************)
(* downloadCSV on its own: the call downloadCSV(rows, "export") for every  *)
(* row sequence of at most MaxRows rows over a small alphabet of keys and  *)
(* values, run to its return.                                              *)
(***************************************************************************)
KeySet == { <<"a">>, <<"b">> }

\* the key orders of an object literal over KeySet: one key, or both in
\* either order
KeyOrders ==
    { <<k>> : k \in KeySet }
    \cup ({ <<k1, k2>> : k1, k2 \in KeySet } \ { <<k, k>> : k \in KeySet })

CellValues ==
    { Str(<<>>), Str(<<Comma>>), Str(<<Newline>>), Num(1500) }

GenericRows ==
    UNION { { [i \in 1..Len(ks) |-> <<ks[i], vs[i]>>] :
              vs \in [1..Len(ks) -> CellValues] } : ks \in KeyOrders }

ExportBase == <<"e", "x", "p", "o", "r", "t">>

InitCSV ==
    /\ store = [products |-> <<>>, transactions |-> <<>>]
    /\ products = <<>>
    /\ transactions = <<>>
    /\ mounted = TRUE
    /\ today = 1
    /\ pc = "downloadCSV"
    /\ cont = <<>>
    /\ data \in SeqsUpTo(GenericRows, MaxRows)
    /\ filename = ExportBase
    /\ link = NoLink
    /\ urls = {}
    /\ screen = Render(<<>>, <<>>, Days[1])
    /\ log = <<CallEvent(ExportBase, data)>>
    /\ lastDownload = NoDownload

NextCSV ==
    \/ DownloadNoData
    \/ DownloadCreateUrl
    \/ DownloadClick
    \/ DownloadRevoke
    \/ DownloadSuccess

SpecCSV == InitCSV /\ [][NextCSV]_vars

(***************************************************************************)
(* Reading texts back, for the properties.                                 *)
(***************************************************************************)
IsDigit(c) == \E d \in 0..9 : DigitChar(d) = c

DigitValue(c) == CHOOSE d \in 0..9 : DigitChar(d) = c

RECURSIVE ParseNat(_)
ParseNat(ds) ==
    IF Len(ds) = 0 THEN 0
    ELSE 10 * ParseNat(SubSeq(ds, 1, Len(ds) - 1)) + DigitValue(ds[Len(ds)])

AllDigits(ds) == Len(ds) > 0 /\ \A i \in 1..Len(ds) : IsDigit(ds[i])

\* t is a decimal numeral with exactly two fraction digits, with or without
\* a minus sign
IsTwoDecimals(t) ==
    LET u == IF Len(t) > 0 /\ t[1] = "-" THEN Tail(t) ELSE t
    IN  /\ Len(u) >= 4
        /\ u[Len(u) - 2] = "."
        /\ AllDigits(SubSeq(u, 1, Len(u) - 3))
        /\ AllDigits(SubSeq(u, Len(u) - 1, Len(u)))

\* the value of such a numeral, in cents
Cents(t) ==
    LET neg == Len(t) > 0 /\ t[1] = "-"
        u == IF neg THEN Tail(t) ELSE t
        c == 100 * ParseNat(SubSeq(u, 1, Len(u) - 3))
             + ParseNat(SubSeq(u, Len(u) - 1, Len(u)))
    IN  IF neg THEN 0 - c ELSE c

RECURSIVE Split(_, _)
\* String.prototype.split on a one-character separator
Split(t, sep) ==
    IF \E i \in 1..Len(t) : t[i] = sep
    THEN LET i == CHOOSE j \in 1..Len(t) :
                      t[j] = sep /\ \A k \in 1..(j - 1) : t[k] # sep
         IN  <<SubSeq(t, 1, i - 1)>> \o Split(SubSeq(t, i + 1, Len(t)), sep)
    ELSE <<t>>

\* the text (a string or a number, as written by join) of a row's field
FieldText(row, key) == JoinText(Get(row, key))

RECURSIVE SumCents(_, _)
\* the sum, in cents, of the field key over the first n rows
SumCents(rows, key) ==
    IF Len(rows) = 0 THEN 0
    ELSE SumCents(SubSeq(rows, 1, Len(rows) - 1), key)
         + Cents(FieldText(rows[Len(rows)], key))

(***************************************************************************)
(* The calls of downloadCSV recorded in log.                               *)
(***************************************************************************)
Calls == {i \in 1..Len(log) : log[i].op = "downloadCSV"}

\* what the call at log position i has done so far: the events after it, up
\* to the next call, without the End-of-Day handler's own notification
Segment(i) ==
    LET later == {j \in Calls : j > i}
        last == IF later = {} THEN Len(log)
                ELSE (CHOOSE j \in later : \A k \in later : j <= k) - 1
    IN  SelectSeq(SubSeq(log, i + 1, last), LAMBDA e : e.msg # EndOfDayMsg)

\* the call at log position i has returned
Returned(i) ==
    \/ \E j \in Calls : j > i
    \/ pc \in {"idle", "eodLowStock", "eodToast"}

HandlerDone == mounted /\ pc = "idle" /\ Len(log) > 0

ReportIds ==
    {InventoryReportId, LowStockReportId, TransactionReportId, ValuationReportId}

\* name is base_YYYY-MM-DD.csv for one of the model's days
IsReportFile(name, base) ==
    LET b == Len(base)
        date == SubSeq(name, b + 2, b + 11)
    IN  /\ Len(name) = b + 15
        /\ SubSeq(name, 1, b) = base
        /\ name[b + 1] = "_"
        /\ SubSeq(name, b + 12, b + 15) = <<".", "c", "s", "v">>
        /\ date[5] = "-" /\ date[8] = "-"
        /\ AllDigits(SubSeq(date, 1, 4))
        /\ AllDigits(SubSeq(date, 6, 7))
        /\ AllDigits(SubSeq(date, 9, 10))
        /\ \E k \in 1..Len(Days) :
              /\ ParseNat(SubSeq(date, 1, 4)) = Days[k].y
              /\ ParseNat(SubSeq(date, 6, 7)) = Days[k].m
              /\ ParseNat(SubSeq(date, 9, 10)) = Days[k].d

\* the positions of the products the low-stock report is about
Qualifying ==
    {i \in 1..Len(products) :
        /\ products[i].status = <<"A", "c", "t", "i", "v", "e">>
        /\ products[i].quantity <= products[i].reorderLevel}

(***************************************************************************)
(* C1: the low-stock export's rows are exactly the products with status    *)
(* "Active" and quantity <= reorderLevel, one row each, in the products'   *)
(* order; each row's Units Below Reorder is reorderLevel - quantity, never *)
(* negative, and 0 exactly when quantity = reorderLevel.                   *)
(***************************************************************************)
C1_LowStockRows ==
    (mounted /\ filename = LowStockReportId) =>
        /\ Len(data) = Cardinality(Qualifying)
        /\ \A i \in Qualifying :
              LET row == data[Cardinality({j \in Qualifying : j <= i})]
                  p == products[i]
                  below == Get(row, K_UnitsBelowReorder)
              IN  /\ Get(row, K_SKU) = Str(p.sku)
                  /\ Get(row, K_CurrentQuantity) = Num(p.quantity * Scale)
                  /\ Get(row, K_ReorderLevel) = Num(p.reorderLevel * Scale)
                  /\ below = Num((p.reorderLevel - p.quantity) * Scale)
                  /\ below.n >= 0
                  /\ (below.n = 0 <=> p.quantity = p.reorderLevel)

\* a low-stock export of two products that kept one of them, exactly at its
\* reorder level
C1_Witness ==
    /\ HandlerDone
    /\ filename = LowStockReportId
    /\ Len(products) = 2
    /\ Len(data) = 1
    /\ Get(data[1], K_UnitsBelowReorder) = Num(0)
    /\ \E i \in 1..Len(log) : log[i].op = "download"

(***************************************************************************)
(* C2: the valuation export has products.length + 1 rows, the last being   *)
(* the TOTAL row; the TOTAL row's Stock Value is the sum of the Stock      *)
(* Value written in the other rows, and its Potential Profit is its        *)
(* Potential Revenue minus its Stock Value.                                *)
(***************************************************************************)
C2_TotalRowAddsUp ==
    (mounted /\ filename = ValuationReportId) =>
        /\ Len(data) = Len(products) + 1
        /\ LET total == data[Len(data)]
               others == SubSeq(data, 1, Len(data) - 1)
           IN  /\ FieldText(total, K_SKU) = <<"T", "O", "T", "A", "L">>
               /\ Cents(FieldText(total, K_StockValue))
                     = SumCents(others, K_StockValue)
               /\ Cents(FieldText(total, K_PotentialProfit))
                     = Cents(FieldText(total, K_PotentialRevenue))
                       - Cents(FieldText(total, K_StockValue))

(***************************************************************************)
(* C3: a call of downloadCSV with no rows shows the "No data to export"    *)
(* error and does nothing else (no object URL, no download, no success     *)
(* notification of its own).  The inventory, low-stock and transaction     *)
(* exports make that call when products is empty, no product qualifies,    *)
(* transactions is empty; the valuation export never does: with no         *)
(* products it downloads a file whose only data row is the TOTAL row with  *)
(* the three money fields "0.00".                                          *)
(***************************************************************************)
C3_NoDataPath ==
    /\ \A i \in Calls :
          /\ log[i].n = 0 =>
                /\ Len(Segment(i)) <= 1
                /\ Len(Segment(i)) = 1 => Segment(i)[1] = ToastError(NoDataMsg)
                /\ Returned(i) => Len(Segment(i)) = 1
                /\ (\A j \in Calls : j <= i) => urls = {}
          /\ log[i].name # ValuationReportId \/ log[i].n > 0
          /\ (mounted /\ log[i].name = InventoryReportId) =>
                (log[i].n = 0 <=> products = <<>>)
          /\ (mounted /\ log[i].name = TransactionReportId) =>
                (log[i].n = 0 <=> transactions = <<>>)
          /\ (mounted /\ log[i].name = LowStockReportId) =>
                (log[i].n = 0 <=> Qualifying = {})
    /\ (mounted /\ filename = ValuationReportId /\ products = <<>>) =>
          /\ Len(data) = 1
          /\ FieldText(data[1], K_SKU) = <<"T", "O", "T", "A", "L">>
          /\ FieldText(data[1], K_StockValue) = <<"0", ".", "0", "0">>
          /\ FieldText(data[1], K_PotentialRevenue) = <<"0", ".", "0", "0">>
          /\ FieldText(data[1], K_PotentialProfit) = <<"0", ".", "0", "0">>
          /\ pc = "idle" =>
                \E i \in 1..Len(log) :
                    /\ log[i].op = "download"
                    /\ LET lines == Split(log[i].body, Newline)
                       IN  /\ Len(lines) = 2
                           /\ Split(lines[2], Comma) =
                                 << <<"T", "O", "T", "A", "L">>, <<>>, <<>>,
                                    <<"0">>, <<>>, <<"0", ".", "0", "0">>,
                                    <<"0", ".", "0", "0">>,
                                    <<"0", ".", "0", "0">> >>

\* a finished low-stock export of a non-empty snapshot in which no product
\* qualified: the error and nothing else
C3_Witness ==
    /\ HandlerDone
    /\ products # <<>>
    /\ filename = LowStockReportId
    /\ log = <<CallEvent(LowStockReportId, <<>>), ToastError(NoDataMsg)>>

(***************************************************************************)
(* C4: for a non-empty snapshot the inventory export has one row per       *)
(* product, in the products' order and whatever their status or quantity;  *)
(* each row's Total Value is quantity * unitCost written with exactly two  *)
(* decimal places.                                                         *)
(***************************************************************************)
C4_InventoryRows ==
    (mounted /\ filename = InventoryReportId /\ products # <<>>) =>
        /\ Len(data) = Len(products)
        /\ \A i \in 1..Len(products) :
              LET p == products[i]
                  text == FieldText(data[i], K_TotalValue)
              IN  /\ Get(data[i], K_SKU) = Str(p.sku)
                  /\ Get(data[i], K_Status) = Str(p.status)
                  /\ Get(data[i], K_Quantity) = Num(p.quantity * Scale)
                  /\ IsTwoDecimals(text)
                  \* the nearest hundredth to quantity * unitCost
                  /\ Abs(Cents(text) * (Scale \div 100) - p.quantity * p.unitCost)
                        * 2 <= Scale \div 100

\* a finished inventory export of two products, one of them not Active and
\* one of them with a value that is not a whole number of cents
C4_Witness ==
    /\ HandlerDone
    /\ filename = InventoryReportId
    /\ Len(data) = 2
    /\ \E i \in 1..2 : products[i].status # S_Active
    /\ \E i \in 1..2 : (products[i].quantity * products[i].unitCost) % 10 # 0
    /\ \E i \in 1..Len(log) : log[i].op = "download"

(***************************************************************************)
(* C5: CSV round trip.  For a non-empty row sequence whose rows all have   *)
(* the same keys and whose keys and values hold no comma and no newline,   *)
(* the text downloadCSV builds has rows.length + 1 lines; split on         *)
(* newlines and then on commas it gives back the first row's keys in       *)
(* their order as the first line, and row i's values in that key order as  *)
(* line i + 1.                                                             *)
(***************************************************************************)
Clean(t) == \A i \in 1..Len(t) : t[i] # Comma /\ t[i] # Newline

KeysOf(row) == {row[i][1] : i \in 1..Len(row)}

CleanRows(rows) ==
    /\ Len(rows) > 0
    /\ \A r \in 1..Len(rows) :
          /\ KeysOf(rows[r]) = KeysOf(rows[1])
          /\ \A i \in 1..Len(rows[r]) :
                Clean(rows[r][i][1]) /\ Clean(JoinText(rows[r][i][2]))

C5_CsvRoundTrip ==
    \A e \in 1..Len(log) :
        (log[e].op = "download" /\ CleanRows(data)) =>
            LET lines == Split(log[e].body, Newline)
                keys == [k \in 1..Len(data[1]) |-> data[1][k][1]]
            IN  /\ Len(lines) = Len(data) + 1
                /\ Split(lines[1], Comma) = keys
                /\ \A r \in 1..Len(data) :
                      Split(lines[r + 1], Comma) =
                          [k \in 1..Len(keys) |->
                              LET p == CHOOSE q \in 1..Len(data[r]) :
                                           data[r][q][1] = keys[k]
                              IN  JoinText(data[r][p][2])]

\* a finished download of two clean rows that list the same two keys in
\* different orders, one value being the empty text and one a number
C5_Witness ==
    /\ pc = "idle"
    /\ CleanRows(data)
    /\ Len(data) = 2
    /\ Len(data[1]) = 2
    /\ data[1][1][1] = data[2][2][1]
    /\ data[1][1][2] = Str(<<>>)
    /\ data[2][1][2].t = "num"
    /\ \E e \in 1..Len(log) : log[e].op = "download"

(***************************************************************************)
(* C6: an export with rows finishes inside its handler, doing in this      *)
(* order: create the object URL, start one download of the file            *)
(* {report_id}_{YYYY-MM-DD}.csv with the report id of the export invoked,  *)
(* revoke the URL, show one "Report downloaded successfully"; it shows no  *)
(* error.                                                                  *)
(***************************************************************************)
\* the report whose rows have these keys
ReportOfKeys(keys) ==
    LET has(k) == \E i \in 1..Len(keys) : keys[i] = k
    IN  IF has(K_TotalValue) THEN InventoryReportId
        ELSE IF has(K_UnitsBelowReorder) THEN LowStockReportId
        ELSE IF has(K_Date) THEN TransactionReportId
        ELSE IF has(K_PotentialProfit) THEN ValuationReportId
        ELSE <<>>

C6_ExportSequence ==
    /\ (mounted /\ Len(data) > 0) =>
          filename = ReportOfKeys([k \in 1..Len(data[1]) |-> data[1][k][1]])
    /\ \A i \in Calls :
          log[i].n > 0 =>
              LET seg == Segment(i)
              IN  /\ log[i].name \in ReportIds
                  /\ Len(seg) <= 4
                  /\ Len(seg) >= 1 => seg[1].op = "createObjectURL"
                  /\ Len(seg) >= 2 =>
                        /\ seg[2].op = "download"
                        /\ seg[2].url = seg[1].url
                        /\ IsReportFile(seg[2].name, log[i].name)
                  /\ Len(seg) >= 3 => seg[3] = RevokeEvent(seg[1].url)
                  /\ Len(seg) >= 4 => seg[4] = ToastSuccess(DownloadedMsg)
                  /\ Returned(i) => Len(seg) = 4

\* a finished End-of-Day action both of whose exports had rows, the second
\* one after midnight
C6_Witness ==
    /\ HandlerDone
    /\ Cardinality(Calls) = 2
    /\ \A i \in Calls : log[i].n > 0
    /\ \E i, j \in 1..Len(log) :
          /\ log[i].op = "download" /\ log[j].op = "download"
          /\ SubSeq(log[i].name, Len(log[i].name) - 5, Len(log[i].name))
                # SubSeq(log[j].name, Len(log[j].name) - 5, Len(log[j].name))

(***************************************************************************)
(* C7: object-URL lifetime.  No object URL is live once a handler has      *)
(* returned; every URL downloadCSV creates is revoked in the same call,    *)
(* after the download is started; at most one URL is live at any moment,   *)
(* also during the End-of-Day action.                                      *)
(***************************************************************************)
Created == {i \in 1..Len(log) : log[i].op = "createObjectURL"}

C7_UrlLifetime ==
    /\ Cardinality(urls) <= 1
    /\ pc \in {"idle", "downloadCSV", "eodLowStock", "eodToast"} => urls = {}
    /\ \A i \in Created :
          /\ \A j \in Created : log[j].url = log[i].url => j = i
          /\ i + 1 <= Len(log) => log[i + 1].op \in {"download", "deadLink"}
          /\ i + 2 <= Len(log) => log[i + 2] = RevokeEvent(log[i].url)
          /\ (\E u \in urls : u.id = log[i].url) <=> i + 2 > Len(log)

\* inside the End-of-Day action: the second export's URL is live and the
\* first export's URL has been revoked
C7_Witness ==
    /\ pc = "clicked"
    /\ cont = <<"eodToast">>
    /\ Cardinality(Created) = 2
    /\ Cardinality(urls) = 1
    /\ \E i \in 1..Len(log) : log[i].op = "revokeObjectURL"

(***************************************************************************)
(* C8: the on-screen "Low Stock Items" count is the number of products     *)
(* with quantity <= reorderLevel whatever their status, so it is at least  *)
(* the number of rows of the low-stock report, and equal to it exactly     *)
(* when no product with another status than "Active" has quantity <=       *)
(* reorderLevel; "Active Products" is the number of products with status   *)
(* "Active".                                                               *)
(***************************************************************************)
C8_SummaryCounts ==
    LET low == {i \in 1..Len(products) :
                   products[i].quantity <= products[i].reorderLevel}
        active == {i \in 1..Len(products) :
                      products[i].status = <<"A", "c", "t", "i", "v", "e">>}
        rows == Len(LowStockReport(products))
    IN  /\ screen.lowStockItems = Cardinality(low)
        /\ screen.activeProducts = Cardinality(active)
        /\ screen.lowStockItems >= rows
        /\ (screen.lowStockItems = rows <=> low \subseteq active)
        /\ (mounted /\ filename = LowStockReportId) =>
              screen.lowStockItems >= Len(data)

\* a low-stock export with fewer rows than the count on screen
C8_Witness ==
    /\ HandlerDone
    /\ filename = LowStockReportId
    /\ Len(data) = 1
    /\ screen.lowStockItems = 2
    /\ screen.activeProducts = 1

(***************************************************************************)
(* C9: in every user action (the four exports and End-of-Day) a success    *)
(* notification is shown only if a file was downloaded during that same    *)
(* action.  (With no products the claim names its instance: only the       *)
(* valuation export, the one that still downloads, may show success.)      *)
(***************************************************************************)
C9_SuccessOnlyAfterDownload ==
    LET success == \E i \in 1..Len(log) : log[i].op = "toast.success"
        download == \E i \in 1..Len(log) : log[i].op = "download"
    IN  success => download

(***************************************************************************)
(* C10: products and transactions start empty, are set once, by the mount  *)
(* effect, to the Data Provider's snapshot, and no export and no           *)
(* End-of-Day action changes them; so an export repeated on the same day   *)
(* downloads the same rows under the same file name.                       *)
(***************************************************************************)
C10_SnapshotUnchanged ==
    /\ [](IF mounted
          THEN products = store.products /\ transactions = store.transactions
          ELSE products = <<>> /\ transactions = <<>>)
    /\ [][mounted => UNCHANGED <<products, transactions, mounted>>]_vars
    /\ [][lastDownload'.repeat =>
             /\ lastDownload'.name = lastDownload.name
             /\ lastDownload'.body = lastDownload.body]_vars

\* a valuation export of a non-empty snapshot, repeated on the same day
C10_Witness ==
    /\ HandlerDone
    /\ products # <<>>
    /\ filename = ValuationReportId
    /\ lastDownload.base = ValuationReportId
    /\ lastDownload.repeat

====
